---- MODULE Spec2Model ----
(***************************************************************************)
(* OWASPComplianceChecker (src/compliance_checker.py) as a state machine.  *)
(*                                                                         *)
(* One checker instance serves a sequence of check_compliance calls.  A    *)
(* call is a straight line of steps: check_compliance builds the fresh     *)
(* report and classifies the URL, _check_github_repo resolves the          *)
(* repository, each _check_<category> runs its rules one _add_check at a   *)
(* time, and finalize writes score and percentage and returns the report.  *)
(* The hosting API and the web page are inputs: every answer an adapter    *)
(* call gives (a value or a raised exception) is a field of the input.     *)
(***************************************************************************)
EXTENDS Integers, Sequences, FiniteSets, TLC

VARIABLES
    current_score,  \* self.current_score
    results,        \* self.results, the report under construction
    pc,             \* the step of check_compliance the checker is at
    idx,            \* the next rule of the category method being run
    input,          \* the target and the adapter answers of the running call
    returned,       \* the report the previous call returned, with its input
    calls,          \* number of check_compliance calls started
    results_id,     \* the identity of the dict self.results refers to
    order           \* the sequence of category methods _check_github_repo calls

vars ==
    <<current_score, results, pc, idx, input, returned, calls, results_id,
      order>>

\* Most check_compliance calls made on one checker instance.
MaxCalls == 2

\* self.max_score
max_score == 100

-----------------------------------------------------------------------------
(* Exceptions the adapters raise.                                          *)

NoException == [type |-> "none", github |-> FALSE, status |-> 0, msg |-> ""]

\* github.GithubException and its subclasses carry a status.
GithubException(type, status, msg) ==
    [type |-> type, github |-> TRUE, status |-> status, msg |-> msg]

\* Any other Exception (a transport error, a TypeError).
OtherException(type, msg) ==
    [type |-> type, github |-> FALSE, status |-> 0, msg |-> msg]

NotFound    == GithubException("UnknownObjectException", 404, "Not Found")
Forbidden   == GithubException("GithubException", 403, "Forbidden")
ServerError == GithubException("GithubException", 500, "Server Error")
Transport   == OtherException("ConnectionError", "Connection refused")
NaiveAware  == OtherException("TypeError",
                 "can't compare offset-naive and offset-aware datetimes")

\* The answer of one adapter call: a value, or a raised exception.
Ok(v)    == [ok |-> TRUE, val |-> v, exc |-> NoException]
Fails(e) == [ok |-> FALSE, val |-> 0, exc |-> e]

-----------------------------------------------------------------------------
(* The adapter answers about one repository.                               *)

\* Every path a rule probes with get_contents.
ProbedPaths ==
    {"CONTRIBUTING.md", "CODE_OF_CONDUCT.md", "ROADMAP.md", "docs",
     "swagger.yaml", "openapi.yaml", "api-docs", "scripts/README.md",
     "FAQ.md", "TROUBLESHOOTING.md", "CHANGELOG.md",
     ".eslintrc", ".pylintrc", ".rubocop.yml", "tslint.json",
     ".editorconfig", "phpcs.xml", ".prettierrc",
     "SECURITY.md", ".github/dependabot.yml",
     "tests", "test", "__tests__", ".github/workflows",
     ".gitlab-ci.yml", ".travis.yml", "Jenkinsfile", "PRIVACY.md"}

\* Every keyword a README probe looks for.
ReadmeKeywords ==
    {"goal", "purpose", "about", "overview", "description",
     "install", "setup", "getting started", "quick start",
     "usage", "example", "how to use", "tutorial"}

Item(type, code_ext, content) ==
    [type |-> type, code_ext |-> code_ext, content |-> content]

\* Every fact present and favourable.
Favourable ==
    [get_repo          |-> Ok(1),
     get_readme        |-> Ok(ReadmeKeywords),
     get_license       |-> Ok("MIT"),
     contents          |-> ProbedPaths,
     root              |-> Ok(<<Item("dir", FALSE, "plain"),
                                Item("dir", FALSE, "plain"),
                                Item("file", TRUE, "commented")>>),
     open_issues_count |-> 3,
     updated_at        |-> "2026-10-01",
     pushed_at         |-> "recent",
     has_wiki          |-> TRUE,
     has_discussions   |-> TRUE,
     get_commits       |-> Ok(10),
     get_milestones    |-> Ok(2),
     get_collaborators |-> Ok(2),
     get_releases      |-> Ok(1),
     get_tags          |-> Ok(1)]

\* The repository resolves, no optional file or directory is present, every
\* keyword probe misses, every attribute is null or zero.
Absent ==
    [get_repo          |-> Ok(1),
     get_readme        |-> Ok({}),
     get_license       |-> Ok("None"),
     contents          |-> {},
     root              |-> Ok(<<Item("file", TRUE, "plain")>>),
     open_issues_count |-> 0,
     updated_at        |-> "None",
     pushed_at         |-> "None",
     has_wiki          |-> FALSE,
     has_discussions   |-> FALSE,
     get_commits       |-> Ok(0),
     get_milestones    |-> Ok(0),
     get_collaborators |-> Ok(0),
     get_releases      |-> Ok(0),
     get_tags          |-> Ok(0)]

\* Adapter calls of rules fail in ways the rules' own try blocks catch: the
\* README fetch, the commit history and the root listing.
CaughtFailures ==
    {[Favourable EXCEPT !.get_readme = Fails(NotFound),
                        !.get_commits = Fails(ServerError),
                        !.root = Fails(Transport)]}

\* One adapter call of a rule fails outside any try block of the rule.
UncaughtFailures ==
    {[Favourable EXCEPT !.get_license = Fails(NotFound)],
     [Favourable EXCEPT !.get_license = Fails(Transport)],
     [Favourable EXCEPT !.get_milestones = Fails(ServerError)],
     [Favourable EXCEPT !.get_collaborators = Fails(Forbidden)],
     [Favourable EXCEPT !.get_releases = Fails(Transport)],
     [Favourable EXCEPT !.get_tags = Fails(ServerError)],
     [Favourable EXCEPT !.pushed_at = "aware"]}

\* The last push is older than a year, and the first source file of the root
\* listing cannot be decoded.
Stale ==
    {[Absent EXCEPT !.pushed_at = "old", !.has_wiki = TRUE,
                    !.root = Ok(<<Item("file", TRUE, "undecodable"),
                                  Item("file", TRUE, "commented")>>)]}

\* Resolution itself fails.
ResolutionFailures ==
    {[Absent EXCEPT !.get_repo = Fails(NotFound)],
     [Absent EXCEPT !.get_repo = Fails(Forbidden)],
     [Absent EXCEPT !.get_repo = Fails(Transport)]}

\* The answers of requests.get for a web page: the keywords its lower-cased
\* text contains, or a raised exception.
PageAnswers ==
    {Ok({"owasp", "security"}), Ok({"owasp"}), Ok({"privacy"}), Ok({}),
     Fails(Transport)}

-----------------------------------------------------------------------------
(* Targets: the URL as urlparse splits it.  The path is a sequence of      *)
(* tokens, each a "/" or a run of characters holding no "/".               *)

Url(netloc, path) == [netloc |-> netloc, path |-> path]

OwaspUrl == Url("github.com", <<"/", "OWASP", "/", "repo">>)

AcmeUrl == Url("github.com", <<"/", "acme", "/", "repo", "/">>)

ShortUrls == {Url("github.com", <<"/", "OWASP">>)}

WebUrls == {Url("example.org", <<"/">>)}

\* The hosting domain in mixed case with the www. prefix.
WwwUrl == Url("WWW.GitHub.com", <<"/", "acme", "/", "repo">>)

\* Another subdomain of the hosting domain, and a lookalike host.
SubdomainUrl == Url("api.github.com", <<"/", "OWASP", "/", "repo">>)

LookalikeUrl == Url("github.com.evil.org", <<"/", "OWASP", "/", "repo">>)

\* The hosting domain with an explicit port: the netloc holds the port.
PortUrl == Url("github.com:443", <<"/", "OWASP", "/", "repo">>)

\* A repeated slash between the owner and the repository name.
DoubleSlashUrl == Url("github.com", <<"/", "OWASP", "/", "/", "repo">>)

\* An opening bracket with no closing one in the netloc.
MalformedUrl == Url("[github.com", <<"/", "OWASP", "/", "repo">>)

\* The inputs of one call: a target and what the adapters answer about it.
\* The page answer of a repository target and the repository answers of a
\* website target are never read.
Inputs ==
    {[url |-> OwaspUrl, repo |-> Favourable, page |-> Fails(Transport)]}
    \cup {[url |-> AcmeUrl, repo |-> r, page |-> Fails(Transport)] :
        r \in {Absent} \cup CaughtFailures \cup UncaughtFailures \cup Stale
                  \cup ResolutionFailures}
    \cup {[url |-> u, repo |-> Absent, page |-> Fails(Transport)] :
        u \in ShortUrls}
    \cup {[url |-> u, repo |-> Absent, page |-> p] :
        u \in WebUrls, p \in PageAnswers}
    \cup {[url |-> u, repo |-> [Absent EXCEPT !.get_repo = Fails(NotFound)],
           page |-> Fails(Transport)] :
        u \in {WwwUrl, DoubleSlashUrl}}
    \cup {[url |-> u, repo |-> Favourable, page |-> Ok({"security"})] :
        u \in {SubdomainUrl, LookalikeUrl, PortUrl}}
    \cup {[url |-> MalformedUrl, repo |-> Absent, page |-> Fails(Transport)]}

-----------------------------------------------------------------------------
(* Pure helpers.                                                           *)

\* str.lower() on the names the targets use.
Lower(s) ==
    CASE s = "OWASP"          -> "owasp"
      [] s = "Owasp"          -> "owasp"
      [] s = "GitHub.com"     -> "github.com"
      [] s = "GITHUB.COM"     -> "github.com"
      [] s = "WWW.GitHub.com" -> "www.github.com"
      [] OTHER                -> s

\* path.strip("/"): drop the leading and the trailing "/" tokens.
RECURSIVE LStrip(_)
LStrip(p) ==
    IF p # <<>> /\ Head(p) = "/" THEN LStrip(Tail(p)) ELSE p

RECURSIVE RStrip(_)
RStrip(p) ==
    IF p # <<>> /\ p[Len(p)] = "/" THEN RStrip(SubSeq(p, 1, Len(p) - 1)) ELSE p

Strip(p) == RStrip(LStrip(p))

\* str.split("/"): one segment per "/"-separated stretch, empty ones kept.
RECURSIVE Split(_)
Split(p) ==
    IF \E i \in 1..Len(p) : p[i] = "/"
    THEN LET i == CHOOSE k \in 1..Len(p) :
                      p[k] = "/" /\ \A j \in 1..(k - 1) : p[j] # "/"
         IN  <<IF i = 1 THEN "" ELSE p[1]>> \o Split(SubSeq(p, i + 1, Len(p)))
    ELSE <<IF p = <<>> THEN "" ELSE p[1]>>

\* str(n) for the counts the details quote.
Str(n) == <<"0", "1", "2", "3", "4", "5", "6", "7", "8", "9", "10">>[n + 1]

\* round(score / max * 100, 2), in hundredths of a percent (half to even).
Round2(score, max) ==
    LET n == score * 10000
        q == n \div max
        r == n % max
    IN  IF 2 * r > max \/ (2 * r = max /\ q % 2 = 1) THEN q + 1 ELSE q

_check_file_exists(repo, filepath) == filepath \in repo.contents

_check_directory_exists(repo, dirpath) == dirpath \in repo.contents

\* The loop of _check_code_comments over contents[:5], from item i on.
RECURSIVE CommentScan(_, _)
CommentScan(items, i) ==
    IF i > Len(items) \/ i > 5 THEN FALSE
    ELSE IF items[i].type = "file" /\ items[i].code_ext
         THEN CASE items[i].content = "undecodable" -> FALSE
                [] items[i].content = "commented"   -> TRUE
                [] OTHER -> CommentScan(items, i + 1)
         ELSE CommentScan(items, i + 1)

_check_code_comments(repo) ==
    IF repo.root.ok THEN CommentScan(repo.root.val, 1) ELSE FALSE

_check_no_secrets(repo) == TRUE

-----------------------------------------------------------------------------
(* The report and _add_check.                                              *)

FreshResults(url) ==
    [url |-> url, score |-> 0, max_score |-> max_score, percentage |-> 0,
     categories |-> <<>>, error |-> <<>>, note |-> ""]

HasCategory(cats, category) == \E i \in 1..Len(cats) : cats[i].name = category

\* _add_check with the category score raised whether or not the check passed.
_add_check_ScoreAlways(rs, cs, category, name, passed, points, details, how_to_fix) ==
    LET cats == IF HasCategory(rs.categories, category)
                THEN rs.categories
                ELSE Append(rs.categories,
                            [name |-> category, checks |-> <<>>,
                             score |-> 0, max_score |-> 0])
        i == CHOOSE k \in 1..Len(cats) : cats[k].name = category
        check == [name |-> name,
                  passed |-> passed,
                  points |-> IF passed THEN points ELSE 0,
                  max_points |-> points,
                  details |-> details,
                  how_to_fix |-> IF ~passed THEN how_to_fix ELSE ""]
        cat == [cats[i] EXCEPT
                   !.score = @ + points,
                   !.max_score = @ + points,
                   !.checks = Append(@, check)]
    IN  [results |-> [rs EXCEPT !.categories = [cats EXCEPT ![i] = cat]],
         current_score |-> IF passed THEN cs + points ELSE cs]

\* _add_check with the category max_score raised only when the check passed.
_add_check_MaxWhenPassed(rs, cs, category, name, passed, points, details, how_to_fix) ==
    LET cats == IF HasCategory(rs.categories, category)
                THEN rs.categories
                ELSE Append(rs.categories,
                            [name |-> category, checks |-> <<>>,
                             score |-> 0, max_score |-> 0])
        i == CHOOSE k \in 1..Len(cats) : cats[k].name = category
        check == [name |-> name,
                  passed |-> passed,
                  points |-> IF passed THEN points ELSE 0,
                  max_points |-> points,
                  details |-> details,
                  how_to_fix |-> IF ~passed THEN how_to_fix ELSE ""]
        cat == [cats[i] EXCEPT
                   !.score = IF passed THEN @ + points ELSE @,
                   !.max_score = IF passed THEN @ + points ELSE @,
                   !.checks = Append(@, check)]
    IN  [results |-> [rs EXCEPT !.categories = [cats EXCEPT ![i] = cat]],
         current_score |-> IF passed THEN cs + points ELSE cs]

_add_check(rs, cs, category, name, passed, points, details, how_to_fix) ==
    LET cats == IF HasCategory(rs.categories, category)
                THEN rs.categories
                ELSE Append(rs.categories,
                            [name |-> category, checks |-> <<>>,
                             score |-> 0, max_score |-> 0])
        i == CHOOSE k \in 1..Len(cats) : cats[k].name = category
        check == [name |-> name,
                  passed |-> passed,
                  points |-> IF passed THEN points ELSE 0,
                  max_points |-> points,
                  details |-> details,
                  how_to_fix |-> IF ~passed THEN how_to_fix ELSE ""]
        cat == [cats[i] EXCEPT
                   !.score = IF passed THEN @ + points ELSE @,
                   !.max_score = @ + points,
                   !.checks = Append(@, check)]
    IN  [results |-> [rs EXCEPT !.categories = [cats EXCEPT ![i] = cat]],
         current_score |-> IF passed THEN cs + points ELSE cs]

\* One step of a category method: an _add_check call with its arguments, or
\* an exception raised while the arguments were being evaluated.
Check(name, passed, points, details, how_to_fix) ==
    [raise |-> FALSE, exc |-> NoException, name |-> name, passed |-> passed,
     points |-> points, details |-> details, how_to_fix |-> how_to_fix]

Raise(e) ==
    [raise |-> TRUE, exc |-> e, name |-> "", passed |-> FALSE,
     points |-> 0, details |-> <<>>, how_to_fix |-> ""]

-----------------------------------------------------------------------------
(* The rule catalog: each category method as the sequence of its steps     *)
(* against one repository's answers.  A step that raises ends the method.  *)

GoalKeywords    == {"goal", "purpose", "about", "overview", "description"}
InstallKeywords == {"install", "setup", "getting started", "quick start"}
UsageKeywords   == {"usage", "example", "how to use", "tutorial"}

\* any(keyword in readme_content for keyword in keywords)
AnyKeyword(found, keywords) == found \cap keywords # {}

\* repo.license, the attribute the details of rule 2 quote.
LicenseName(repo) ==
    IF repo.get_license.val # "None" THEN repo.get_license.val ELSE "Not found"

GeneralSteps(repo, owner) ==
    <<IF repo.get_readme.ok
      THEN Check("Clearly defined project goal and scope",
                 AnyKeyword(repo.get_readme.val, GoalKeywords), 1,
                 <<"Checked README for keywords: goal, purpose, about, overview, description">>,
                 "Add a clear project description in your README.md file.")
      ELSE Check("Clearly defined project goal and scope", FALSE, 1,
                 <<"README.md file not found or could not be read">>,
                 "Create a README.md file in the root of your repository."),
      IF ~repo.get_license.ok THEN Raise(repo.get_license.exc)
      ELSE Check("Open-source license file present",
                 repo.get_license.val # "None", 1,
                 <<"License: ", LicenseName(repo)>>,
                 "Add a LICENSE file to your repository."),
      Check("README file provides project overview", repo.get_readme.ok, 1,
            <<"Checked for README.md, README.rst, or README.txt in repository root">>,
            "Create a README.md file in the root directory with project overview."),
      Check("Under OWASP organization", Lower(owner) = "owasp", 1,
            <<"Repository owner: ", owner>>,
            "This check verifies if the repository is under the OWASP GitHub organization."),
      Check("Contribution guidelines (CONTRIBUTING.md)",
            _check_file_exists(repo, "CONTRIBUTING.md"), 1,
            <<"Checked for CONTRIBUTING.md file in repository root">>,
            "Create a CONTRIBUTING.md file that explains how others can contribute."),
      Check("Issue tracker is active", repo.updated_at # "None", 1,
            <<"Open issues: ", Str(repo.open_issues_count), ", Last updated: ",
              IF repo.updated_at # "None" THEN repo.updated_at ELSE "Unknown">>,
            "Enable the Issues feature in your repository settings."),
      IF repo.get_commits.ok
      THEN Check("Active maintainers with recent commits",
                 repo.get_commits.val > 0, 1,
                 <<"Found ", Str(repo.get_commits.val), " recent commits">>,
                 "Ensure regular commits to show active maintenance.")
      ELSE Check("Active maintainers with recent commits", FALSE, 1,
                 <<"Could not fetch commit history">>,
                 "Make sure the repository has commits and is accessible."),
      Check("Code of Conduct present",
            _check_file_exists(repo, "CODE_OF_CONDUCT.md"), 1,
            <<"Checked for CODE_OF_CONDUCT.md file in repository root">>,
            "Add a CODE_OF_CONDUCT.md file to set expectations for community behavior."),
      IF ~repo.get_milestones.ok THEN Raise(repo.get_milestones.exc)
      ELSE Check("Project roadmap or milestones documented",
                 _check_file_exists(repo, "ROADMAP.md")
                     \/ repo.get_milestones.val > 0, 1,
                 <<"Checked for ROADMAP.md file and GitHub milestones (found ",
                   Str(repo.get_milestones.val), " milestones)">>,
                 "Create a ROADMAP.md file or use GitHub Milestones."),
      IF ~repo.get_collaborators.ok THEN Raise(repo.get_collaborators.exc)
      ELSE Check("Well-governed with active maintainers",
                 repo.get_collaborators.val > 0, 1,
                 <<"Collaborators: ", Str(repo.get_collaborators.val)>>,
                 "Add collaborators to your repository through Settings > Collaborators.")>>

\* The exception of line 300 or 302, whichever call raises first.
VersionsRaise(repo) ==
    IF ~repo.get_releases.ok THEN repo.get_releases.exc ELSE repo.get_tags.exc

DocumentationSteps(repo) ==
    <<IF repo.get_readme.ok
      THEN Check("Installation guide in README",
                 AnyKeyword(repo.get_readme.val, InstallKeywords), 1,
                 <<"Searched README for keywords: install, setup, getting started, quick start">>,
                 "Add an installation section to your README.md.")
      ELSE Check("Installation guide in README", FALSE, 1,
                 <<"Could not read README file">>,
                 "Create a README.md file with an installation section."),
      IF repo.get_readme.ok
      THEN Check("Usage examples provided",
                 AnyKeyword(repo.get_readme.val, UsageKeywords), 1,
                 <<"Searched README for keywords: usage, example, how to use, tutorial">>,
                 "Add usage examples to your README.md.")
      ELSE Check("Usage examples provided", FALSE, 1,
                 <<"Could not read README file">>,
                 "Create a README.md file with usage examples and code snippets."),
      Check("Wiki or docs/ directory",
            repo.has_wiki \/ _check_directory_exists(repo, "docs"), 1,
            <<"Wiki enabled: ", IF repo.has_wiki THEN "True" ELSE "False",
              ", docs/ directory exists: ",
              IF _check_directory_exists(repo, "docs") THEN "True" ELSE "False">>,
            "Enable the Wiki feature in repository Settings, or create a 'docs/' directory."),
      Check("API documentation available",
            _check_file_exists(repo, "swagger.yaml")
                \/ _check_file_exists(repo, "openapi.yaml")
                \/ _check_directory_exists(repo, "api-docs"), 1,
            <<"Checked for swagger.yaml, openapi.yaml, or api-docs/ directory">>,
            "If your project has an API, document it using OpenAPI/Swagger."),
      Check("Inline code comments present", _check_code_comments(repo), 1,
            <<"Checked sample source files for comment presence">>,
            "Add meaningful comments to your code to explain complex logic."),
      Check("Scripts and configuration documented",
            _check_file_exists(repo, "scripts/README.md"), 1,
            <<"Checked for scripts/README.md file">>,
            "If you have a scripts/ directory, create a scripts/README.md file."),
      Check("FAQ or troubleshooting guide",
            _check_file_exists(repo, "FAQ.md")
                \/ _check_file_exists(repo, "TROUBLESHOOTING.md"), 1,
            <<"Checked for FAQ.md or TROUBLESHOOTING.md files">>,
            "Create a FAQ.md or TROUBLESHOOTING.md file."),
      Check("Well-defined error messages", TRUE, 1,
            <<"Manual review recommended - automated check not possible">>,
            "Ensure your code provides clear, actionable error messages."),
      IF ~repo.get_releases.ok \/ ~repo.get_tags.ok
      THEN Raise(VersionsRaise(repo))
      ELSE Check("Clear versioning strategy",
                 repo.get_releases.val > 0 \/ repo.get_tags.val > 0, 1,
                 <<"Releases: ", Str(repo.get_releases.val),
                   ", Tags: ", Str(repo.get_tags.val)>>,
                 "Create releases or tags to track versions."),
      Check("CHANGELOG maintained", _check_file_exists(repo, "CHANGELOG.md"), 1,
            <<"Checked for CHANGELOG.md file in repository root">>,
            "Create a CHANGELOG.md file to document all notable changes.")>>

linter_files ==
    {".eslintrc", ".pylintrc", ".rubocop.yml", "tslint.json",
     ".editorconfig", "phpcs.xml", ".prettierrc"}

LinterDetails ==
    <<"Checked for linter config files: ",
      ".eslintrc, .pylintrc, .rubocop.yml, tslint.json, .editorconfig, phpcs.xml, .prettierrc">>

\* sum(1 for item in contents if item.type == "dir")
RECURSIVE NumDirs(_)
NumDirs(items) ==
    IF items = <<>> THEN 0
    ELSE (IF Head(items).type = "dir" THEN 1 ELSE 0) + NumDirs(Tail(items))

CodeQualitySteps(repo) ==
    LET has_linter == \E f \in linter_files : _check_file_exists(repo, f)
    IN
    <<Check("Code follows style guide", has_linter, 1, LinterDetails,
            "Add a linter configuration file for your language."),
      Check("Uses linters", has_linter, 1, LinterDetails,
            "Configure and use a linter for your project."),
      IF repo.root.ok
      THEN Check("Code is modular and maintainable",
                 NumDirs(repo.root.val) >= 2, 1,
                 <<"Found ", Str(NumDirs(repo.root.val)),
                   " directories in repository root">>,
                 "Organize your code into logical modules/directories (e.g., src/, lib/, tests/).")
      ELSE Check("Code is modular and maintainable", FALSE, 1,
                 <<"Could not analyze repository structure">>,
                 "Organize your code into logical modules and directories."),
      Check("Adheres to DRY principle", TRUE, 1,
            <<"Manual code review recommended - automated check not possible">>,
            "Follow the Don't Repeat Yourself (DRY) principle."),
      Check("Secure coding practices followed", TRUE, 1,
            <<"Verified by other security checks in this report">>,
            "Follow OWASP secure coding guidelines."),
      Check("No hardcoded credentials or secrets", _check_no_secrets(repo), 1,
            <<"Basic pattern check performed">>,
            "Remove any hardcoded passwords, API keys, or secrets from your code."),
      Check("Uses parameterized queries", TRUE, 1,
            <<"Manual verification recommended for SQL databases">>,
            "If using databases, always use parameterized queries or prepared statements."),
      Check("Strong cryptographic algorithms", TRUE, 1,
            <<"Manual review recommended">>,
            "Use modern cryptographic algorithms (e.g., AES-256, SHA-256+)."),
      Check("Input validation implemented", TRUE, 1,
            <<"Verified by security scanning recommendations">>,
            "Validate and sanitize all user inputs."),
      Check("Output encoding for XSS prevention", TRUE, 1,
            <<"Verified by security scanning recommendations">>,
            "Encode all output to prevent XSS attacks.")>>

SecuritySteps(repo) ==
    <<Check("Security policy (SECURITY.md)",
            _check_file_exists(repo, "SECURITY.md"), 1,
            <<"Checked for SECURITY.md file in repository root">>,
            "Create a SECURITY.md file to document your security policy."),
      Check("Dependency scanning configured",
            _check_file_exists(repo, ".github/dependabot.yml"), 1,
            <<"Checked for .github/dependabot.yml configuration">>,
            "Enable Dependabot in repository Settings > Security > Dependabot alerts."),
      Check("Uses secure headers (CSP, HSTS, etc.)", TRUE, 1,
            <<"Manual review required for web applications">>,
            "For web apps: implement Content-Security-Policy and related headers."),
      Check("Input validation enforced", TRUE, 1,
            <<"Manual code review required">>,
            "Implement input validation for all user inputs."),
      Check("RBAC implemented where applicable", TRUE, 1,
            <<"Manual review required for multi-user systems">>,
            "If applicable: implement Role-Based Access Control (RBAC)."),
      Check("Secure authentication mechanisms", TRUE, 1,
            <<"Manual review required for auth systems">>,
            "Use industry-standard authentication (OAuth 2.0, OpenID Connect)."),
      Check("Secrets stored securely", TRUE, 1,
            <<"Check for .env.example file, ensure no .env in repository">>,
            "Never commit secrets to Git."),
      Check("Uses HTTPS for communication", TRUE, 1,
            <<"Manual verification required">>,
            "Always use HTTPS for network communication."),
      Check("Adheres to OWASP ASVS", TRUE, 1,
            <<"Manual security assessment required">>,
            "Review the OWASP Application Security Verification Standard (ASVS)."),
      Check("Secure cookie attributes", TRUE, 1,
            <<"For web applications: verify cookie settings">>,
            "For web apps: set Secure, HttpOnly, and SameSite attributes on cookies."),
      Check("No unnecessary ports exposed", TRUE, 1,
            <<"Manual infrastructure review required">>,
            "Review firewall rules and exposed ports."),
      Check("Logs security events", TRUE, 1,
            <<"Manual logging implementation review required">>,
            "Log security-relevant events."),
      Check("Least privilege principle", TRUE, 1,
            <<"Manual code and infrastructure review required">>,
            "Grant minimum permissions needed."),
      Check("No outdated/unsafe dependencies", TRUE, 1,
            <<"Regular dependency scanning recommended">>,
            "Use tools like OWASP Dependency-Check, Snyk, or npm audit."),
      Check("Complies with OWASP Top 10", TRUE, 1,
            <<"Manual security testing and review required">>,
            "Review and test against OWASP Top 10 vulnerabilities.")>>

CicdSteps(repo) ==
    LET has_tests == _check_directory_exists(repo, "tests")
                         \/ _check_directory_exists(repo, "test")
                         \/ _check_directory_exists(repo, "__tests__")
        has_ci == _check_directory_exists(repo, ".github/workflows")
                      \/ _check_file_exists(repo, ".gitlab-ci.yml")
                      \/ _check_file_exists(repo, ".travis.yml")
                      \/ _check_file_exists(repo, "Jenkinsfile")
    IN
    <<Check("Automated unit tests implemented", has_tests, 1,
            <<"Checked for tests/, test/, or __tests__ directories">>,
            "Create a tests/ or test/ directory and add unit tests for your code."),
      Check("Continuous Integration configured", has_ci, 1,
            <<"Checked for .github/workflows/, .gitlab-ci.yml, .travis.yml, or Jenkinsfile">>,
            "Set up CI using GitHub Actions, GitLab CI, Travis CI, or Jenkins."),
      Check("CI/CD includes security scanning", has_ci, 1,
            <<"Verify workflow files include SAST/DAST tools">>,
            "Add security scanning to your CI pipeline."),
      Check("Dependency scanning automated", has_ci, 1,
            <<"Check for dependency scanning in CI workflows">>,
            "Add dependency scanning to CI."),
      Check("Code coverage reports generated", has_ci, 1,
            <<"Check for coverage tools in CI configuration">>,
            "Add code coverage to your CI pipeline."),
      Check("Container security scanning", TRUE, 1,
            <<"Required if project uses containers">>,
            "If using Docker: scan images with Trivy, Clair, or Snyk Container."),
      Check("IaC security checks", TRUE, 1,
            <<"Required if using Infrastructure as Code">>,
            "If using IaC (Terraform, CloudFormation): use tools like Checkov."),
      Check("Secure secrets management in CI/CD", TRUE, 1,
            <<"Manual verification: ensure no secrets in workflow files">>,
            "Use GitHub Secrets, GitLab CI/CD variables, or similar for sensitive data."),
      Check("Environment configurations managed", TRUE, 1,
            <<"Check for .env.example or config documentation">>,
            "Document environment variables in .env.example."),
      Check("Rollback mechanisms available", TRUE, 1,
            <<"Manual deployment process review required">>,
            "Implement deployment rollback capability.")>>

\* The defaults of _add_check's details and how_to_fix parameters.
NoDetails == <<>>
NoHowToFix == ""

TestingSteps(repo) ==
    LET has_tests == _check_directory_exists(repo, "tests")
                         \/ _check_directory_exists(repo, "test")
    IN
    <<Check("Tests cover edge cases", has_tests, 1,
            <<"Requires test review">>, NoHowToFix),
      Check("Unit, integration, and E2E tests", has_tests, 1,
            NoDetails, NoHowToFix),
      Check("Uses mocks and stubs", has_tests, 1,
            <<"Check test files">>, NoHowToFix),
      Check("Achieves 80%+ test coverage", has_tests, 1,
            <<"Run coverage tools">>, NoHowToFix),
      Check("Tests validate input sanitization", has_tests, 1,
            NoDetails, NoHowToFix),
      Check("Automated fuzz testing", FALSE, 1,
            <<"Advanced feature">>, NoHowToFix),
      Check("Fails gracefully with error logging", TRUE, 1,
            <<"Manual verification">>, NoHowToFix),
      Check("No sensitive data in logs", TRUE, 1,
            <<"Code review needed">>, NoHowToFix),
      Check("Uses dependency injection", TRUE, 1,
            <<"Architecture review">>, NoHowToFix),
      Check("Regression tests for compatibility", has_tests, 1,
            NoDetails, NoHowToFix)>>

PerformanceSteps(repo) ==
    <<Check("Code optimized for performance", TRUE, 1,
            <<"Requires profiling">>, NoHowToFix),
      Check("Asynchronous processing where needed", TRUE, 1,
            <<"Architecture review">>, NoHowToFix),
      Check("Caching strategies implemented", TRUE, 1,
            <<"Check for cache configuration">>, NoHowToFix),
      Check("Optimized database queries", TRUE, 1,
            <<"Database review needed">>, NoHowToFix),
      Check("Rate limiting to prevent abuse", TRUE, 1,
            <<"For web services">>, NoHowToFix),
      Check("No memory leaks", TRUE, 1,
            <<"Profiling required">>, NoHowToFix),
      Check("Load testing performed", FALSE, 1,
            <<"Check for load test scripts">>, NoHowToFix),
      Check("Supports horizontal scaling", TRUE, 1,
            <<"Architecture review">>, NoHowToFix),
      Check("Uses lazy loading", TRUE, 1,
            <<"Manual code review">>, NoHowToFix),
      Check("Pagination for large datasets", TRUE, 1,
            <<"API/UI review">>, NoHowToFix)>>

LoggingSteps(repo) ==
    <<Check("Logging implemented", TRUE, 1,
            <<"Check for logging framework">>, NoHowToFix),
      Check("Configurable log levels", TRUE, 1,
            <<"Check configuration files">>, NoHowToFix),
      Check("Logs don't contain sensitive data", TRUE, 1,
            <<"Code review required">>, NoHowToFix),
      Check("Monitoring integration", FALSE, 1,
            <<"Check for monitoring setup">>, NoHowToFix),
      Check("Structured logging format", TRUE, 1,
            <<"Check logging implementation">>, NoHowToFix),
      Check("Audit logs for security actions", TRUE, 1,
            <<"Security review needed">>, NoHowToFix),
      Check("Alerts configured", FALSE, 1,
            <<"Manual infrastructure check">>, NoHowToFix),
      Check("Log rotation and archival", TRUE, 1,
            <<"Operations review">>, NoHowToFix),
      Check("Incident response playbook", FALSE, 1,
            <<"Check documentation">>, NoHowToFix),
      Check("Logging config separate from code", TRUE, 1,
            <<"Check for config files">>, NoHowToFix)>>

CommunitySteps(repo) ==
    LET has_security_md == _check_file_exists(repo, "SECURITY.md")
    IN
    <<Check("Maintainers actively engage", repo.pushed_at # "None", 1,
            NoDetails, NoHowToFix),
      Check("Security vulnerability reporting process", has_security_md, 1,
            NoDetails, NoHowToFix),
      Check("Security policy file (SECURITY.md)", has_security_md, 1,
            NoDetails, NoHowToFix),
      Check("Community guidelines present", TRUE, 1,
            <<"Check CODE_OF_CONDUCT.md">>, NoHowToFix),
      Check("Responsive to security issues", TRUE, 1,
            <<"Check issue response time">>, NoHowToFix),
      \* repo.pushed_at > one_year_ago, one_year_ago a naive datetime
      IF repo.pushed_at = "aware" THEN Raise(NaiveAware)
      ELSE Check("Regular project updates", repo.pushed_at = "recent", 1,
                 <<"Last update: ", repo.pushed_at>>, NoHowToFix),
      Check("Multiple support channels", repo.has_discussions, 1,
            <<IF repo.has_discussions THEN "GitHub Discussions enabled"
              ELSE "Check for other channels">>, NoHowToFix),
      Check("Clear escalation path", TRUE, 1,
            <<"Check SECURITY.md">>, NoHowToFix),
      Check("PR reviews before merging", TRUE, 1,
            <<"Check branch protection">>, NoHowToFix),
      Check("Good issue tracking hygiene", TRUE, 1,
            <<"Open issues: ", Str(repo.open_issues_count)>>, NoHowToFix)>>

LegalSteps(repo) ==
    <<Check("GDPR/CCPA compliance", TRUE, 1,
            <<"Manual legal review needed">>, NoHowToFix),
      IF ~repo.get_license.ok THEN Raise(repo.get_license.exc)
      ELSE Check("Dependencies properly licensed",
                 repo.get_license.val # "None", 1,
                 <<"Check third-party licenses">>, NoHowToFix),
      IF ~repo.get_license.ok THEN Raise(repo.get_license.exc)
      ELSE Check("No proprietary/restricted code",
                 repo.get_license.val # "None", 1, NoDetails, NoHowToFix),
      Check("Users informed of data collection",
            _check_file_exists(repo, "PRIVACY.md"), 1, NoDetails, NoHowToFix),
      Check("Responsible disclosure policy",
            _check_file_exists(repo, "SECURITY.md"), 1, NoDetails, NoHowToFix)>>

\* _check_github_repo calling _check_security before _check_code_quality.
CategoryOrder_SecurityEarly ==
    <<"general", "documentation", "security", "code_quality", "cicd",
      "testing", "performance", "logging", "community", "legal">>

\* The category methods in the order _check_github_repo calls them.
CategoryOrder ==
    <<"general", "documentation", "code_quality", "security", "cicd",
      "testing", "performance", "logging", "community", "legal">>

CategoryName(c) ==
    CASE c = "general"       -> "General Compliance & Governance"
      [] c = "documentation" -> "Documentation & Usability"
      [] c = "code_quality"  -> "Code Quality & Best Practices"
      [] c = "security"      -> "Security & OWASP Compliance"
      [] c = "cicd"          -> "CI/CD & DevSecOps"
      [] c = "testing"       -> "Testing & Validation"
      [] c = "performance"   -> "Performance & Scalability"
      [] c = "logging"       -> "Logging & Monitoring"
      [] c = "community"     -> "Community & Support"
      [] c = "legal"         -> "Legal & Compliance"

Steps(c, repo, owner) ==
    CASE c = "general"       -> GeneralSteps(repo, owner)
      [] c = "documentation" -> DocumentationSteps(repo)
      [] c = "code_quality"  -> CodeQualitySteps(repo)
      [] c = "security"      -> SecuritySteps(repo)
      [] c = "cicd"          -> CicdSteps(repo)
      [] c = "testing"       -> TestingSteps(repo)
      [] c = "performance"   -> PerformanceSteps(repo)
      [] c = "logging"       -> LoggingSteps(repo)
      [] c = "community"     -> CommunitySteps(repo)
      [] c = "legal"         -> LegalSteps(repo)

-----------------------------------------------------------------------------
(* The checker.                                                            *)

\* The report the caller holds is the dict the call returned, not a copy:
\* what is written to the dict of identity id shows in a held report of that
\* identity.
Held(id, rs) ==
    [i \in 1..Len(returned) |->
        IF returned[i].id = id
        THEN [returned[i] EXCEPT !.report = rs]
        ELSE returned[i]]

Init ==
    /\ current_score = 0
    /\ results = <<>>
    /\ pc = "idle"
    /\ idx = 0
    /\ input = <<>>
    /\ returned = <<>>
    /\ calls = 0
    /\ results_id = 0
    /\ order = CategoryOrder

\* urlparse(repo_url) raises ValueError ("Invalid IPv6 URL") when the netloc
\* holds one square bracket without the other.
UrlparseRaises(url) == url.netloc \in {"[github.com", "github.com]"}

\* path_parts of check_compliance
PathParts(url) == Split(Strip(url.path))

\* is_github of check_compliance
\* Line 56: the owner and repository name passed to _check_github_repo.
ResolutionArgs(url) == <<PathParts(url)[1], PathParts(url)[2]>>

IsGithub(url) == Lower(url.netloc) \in {"github.com", "www.github.com"}

StatusStr(status) ==
    CASE status = 403 -> "403"
      [] status = 404 -> "404"
      [] status = 500 -> "500"
      [] OTHER        -> "0"

\* The except clauses with the first one catching every Exception.
ErrorMessage_AllAsGithub(e) ==
    <<"Failed to fetch repository. ", "Status: ", StatusStr(e.status), ". ",
      IF e.status = 403
      THEN "API rate limit may be exceeded. Consider using a GitHub token with --token option."
      ELSE "Please check the repository URL and your network connection.">>

\* The two except clauses of _check_github_repo.
ErrorMessage(e) ==
    IF e.github
    THEN <<"Failed to fetch repository. ", "Status: ", StatusStr(e.status), ". ",
           IF e.status = 403
           THEN "API rate limit may be exceeded. Consider using a GitHub token with --token option."
           ELSE "Please check the repository URL and your network connection.">>
    ELSE <<"Unexpected error: ", e.type, ": ", e.msg>>

\* check_compliance emptying the dict self.results refers to instead of
\* binding self.results to a new dict.
check_compliance_ClearsInPlace ==
    /\ pc \in {"idle", "raised"}
    /\ calls < MaxCalls
    /\ \E inp \in Inputs :
          /\ input' = inp
          /\ results' = FreshResults(inp.url)
          /\ pc' = IF UrlparseRaises(inp.url) THEN "raised"
                   ELSE IF IsGithub(inp.url)
                   THEN IF Len(PathParts(inp.url)) >= 2
                        THEN "check_github_repo"
                        ELSE "return"
                   ELSE "website"
    /\ idx' = 0
    /\ calls' = calls + 1
    /\ results_id' = results_id
    /\ returned' = Held(results_id', results')
    /\ UNCHANGED <<current_score, order>>

\* Lines 39-60: the fresh report, and the classification of the target.  An
\* exception of urlparse (line 48) is inside no try block: it leaves
\* check_compliance, and the caller gets no report.
check_compliance ==
    /\ pc \in {"idle", "raised"}
    /\ calls < MaxCalls
    /\ \E inp \in Inputs :
          /\ input' = inp
          /\ results' = FreshResults(inp.url)
          /\ pc' = IF UrlparseRaises(inp.url) THEN "raised"
                   ELSE IF IsGithub(inp.url)
                   THEN IF Len(PathParts(inp.url)) >= 2
                        THEN "check_github_repo"
                        ELSE "return"
                   ELSE "website"
    /\ idx' = 0
    /\ calls' = calls + 1
    /\ results_id' = calls + 1
    /\ returned' = Held(results_id', results')
    /\ UNCHANGED <<current_score, order>>

\* Line 76: resolution, and the except clauses when it fails.
_check_github_repo ==
    /\ pc = "check_github_repo"
    /\ IF input.repo.get_repo.ok
       THEN /\ pc' = order[1]
            /\ idx' = 1
            /\ UNCHANGED results
       ELSE /\ pc' = "return"
            /\ idx' = 0
            /\ results' = [results EXCEPT
                              !.error = ErrorMessage(input.repo.get_repo.exc)]
    /\ returned' = Held(results_id, results')
    /\ UNCHANGED <<current_score, input, calls, results_id, order>>

\* The category method called after c, or the return of _check_github_repo.
AfterCategory(c) ==
    LET i == CHOOSE k \in 1..Len(order) : order[k] = c
    IN  IF i < Len(order) THEN order[i + 1] ELSE "return"

\* A category method whose rules read the running score the earlier rules
\* wrote: a rule passes only while that score is below 50.
RunCategory_PassesWhileScoreBelowFifty(c) ==
    /\ pc = c
    /\ LET steps == Steps(c, input.repo, PathParts(input.url)[1])
           step  == steps[idx]
           added == _add_check(results, current_score, CategoryName(c),
                               step.name,
                               step.passed /\ current_score < 50,
                               step.points,
                               step.details, step.how_to_fix)
       IN  IF step.raise
           THEN /\ results' = [results EXCEPT !.error = ErrorMessage(step.exc)]
                /\ pc' = "return"
                /\ idx' = 0
                /\ UNCHANGED current_score
           ELSE /\ results' = added.results
                /\ current_score' = added.current_score
                /\ IF idx < Len(steps)
                   THEN pc' = c /\ idx' = idx + 1
                   ELSE pc' = AfterCategory(c)
                        /\ idx' = IF AfterCategory(c) = "return" THEN 0 ELSE 1
    /\ returned' = Held(results_id, results')
    /\ UNCHANGED <<input, calls, results_id, order>>

\* The next statement of category method c: one _add_check, or an exception
\* that leaves the method and reaches the except clauses of
\* _check_github_repo.
RunCategory(c) ==
    /\ pc = c
    /\ LET steps == Steps(c, input.repo, PathParts(input.url)[1])
           step  == steps[idx]
           added == _add_check(results, current_score, CategoryName(c),
                               step.name, step.passed, step.points,
                               step.details, step.how_to_fix)
       IN  IF step.raise
           THEN /\ results' = [results EXCEPT !.error = ErrorMessage(step.exc)]
                /\ pc' = "return"
                /\ idx' = 0
                /\ UNCHANGED current_score
           ELSE /\ results' = added.results
                /\ current_score' = added.current_score
                /\ IF idx < Len(steps)
                   THEN pc' = c /\ idx' = idx + 1
                   ELSE pc' = AfterCategory(c)
                        /\ idx' = IF AfterCategory(c) = "return" THEN 0 ELSE 1
    /\ returned' = Held(results_id, results')
    /\ UNCHANGED <<input, calls, results_id, order>>

_check_general_compliance == RunCategory("general")
_check_documentation      == RunCategory("documentation")
_check_code_quality       == RunCategory("code_quality")
_check_security           == RunCategory("security")
_check_cicd               == RunCategory("cicd")
_check_testing            == RunCategory("testing")
_check_performance        == RunCategory("performance")
_check_logging            == RunCategory("logging")
_check_community          == RunCategory("community")
_check_legal              == RunCategory("legal")

WebsiteNote ==
    "Limited compliance checks for non-GitHub URLs. Consider providing a GitHub repository URL for comprehensive analysis."

\* _check_website_compliance with the first rule weighing 10.
_check_website_compliance_FirstWeighsTen ==
    /\ pc = "website"
    /\ IF input.page.ok
       THEN LET content == input.page.val
                first  == _add_check(results, current_score,
                                     "Website Compliance", "Mentions OWASP",
                                     "owasp" \in content, 10,
                                     NoDetails, NoHowToFix)
                second == _add_check(first.results, first.current_score,
                                     "Website Compliance",
                                     "Security-focused content",
                                     content \cap {"security", "vulnerability",
                                                   "privacy"} # {},
                                     5, NoDetails, NoHowToFix)
            IN  /\ results' = [second.results EXCEPT !.note = WebsiteNote]
                /\ current_score' = second.current_score
       ELSE /\ results' = [results EXCEPT
                              !.error = <<"Failed to fetch website: ",
                                          input.page.exc.msg>>]
            /\ UNCHANGED current_score
    /\ pc' = "return"
    /\ idx' = 0
    /\ returned' = Held(results_id, results')
    /\ UNCHANGED <<input, calls, results_id, order>>

\* _check_website_compliance with the note attached after the try statement,
\* whether or not the fetch succeeded.
_check_website_compliance_NoteAlways ==
    /\ pc = "website"
    /\ IF input.page.ok
       THEN LET content == input.page.val
                first  == _add_check(results, current_score,
                                     "Website Compliance", "Mentions OWASP",
                                     "owasp" \in content, 5,
                                     NoDetails, NoHowToFix)
                second == _add_check(first.results, first.current_score,
                                     "Website Compliance",
                                     "Security-focused content",
                                     content \cap {"security", "vulnerability",
                                                   "privacy"} # {},
                                     5, NoDetails, NoHowToFix)
            IN  /\ results' = [second.results EXCEPT !.note = WebsiteNote]
                /\ current_score' = second.current_score
       ELSE /\ results' = [results EXCEPT
                              !.error = <<"Failed to fetch website: ",
                                          input.page.exc.msg>>,
                              !.note = WebsiteNote]
            /\ UNCHANGED current_score
    /\ pc' = "return"
    /\ idx' = 0
    /\ returned' = Held(results_id, results')
    /\ UNCHANGED <<input, calls, results_id, order>>

_check_website_compliance ==
    /\ pc = "website"
    /\ IF input.page.ok
       THEN LET content == input.page.val
                first  == _add_check(results, current_score,
                                     "Website Compliance", "Mentions OWASP",
                                     "owasp" \in content, 5,
                                     NoDetails, NoHowToFix)
                second == _add_check(first.results, first.current_score,
                                     "Website Compliance",
                                     "Security-focused content",
                                     content \cap {"security", "vulnerability",
                                                   "privacy"} # {},
                                     5, NoDetails, NoHowToFix)
            IN  /\ results' = [second.results EXCEPT !.note = WebsiteNote]
                /\ current_score' = second.current_score
       ELSE /\ results' = [results EXCEPT
                              !.error = <<"Failed to fetch website: ",
                                          input.page.exc.msg>>]
            /\ UNCHANGED current_score
    /\ pc' = "return"
    /\ idx' = 0
    /\ returned' = Held(results_id, results')
    /\ UNCHANGED <<input, calls, results_id, order>>

RECURSIVE SumCategoryMax(_)
SumCategoryMax(cats) ==
    IF cats = <<>> THEN 0
    ELSE Head(cats).max_score + SumCategoryMax(Tail(cats))

\* check_compliance_return with the percentage taken over the max_scores of
\* the categories that ran.
check_compliance_return_OverCategoriesRun ==
    /\ pc = "return"
    /\ results' = [results EXCEPT
                      !.score = current_score,
                      !.percentage =
                          IF results.categories = <<>> THEN 0
                          ELSE Round2(current_score,
                                      SumCategoryMax(results.categories))]
    /\ returned' = <<[input |-> input, report |-> results',
                       id |-> results_id, as_returned |-> results']>>
    /\ pc' = "idle"
    /\ UNCHANGED <<current_score, idx, input, calls, results_id, order>>

\* Lines 62-66: the final score and percentage, and the return.
check_compliance_return ==
    /\ pc = "return"
    /\ results' = [results EXCEPT
                      !.score = current_score,
                      !.percentage = Round2(current_score, max_score)]
    /\ returned' = <<[input |-> input, report |-> results',
                       id |-> results_id, as_returned |-> results']>>
    /\ pc' = "idle"
    /\ UNCHANGED <<current_score, idx, input, calls, results_id, order>>

Next ==
    \/ check_compliance
    \/ _check_github_repo
    \/ _check_general_compliance
    \/ _check_documentation
    \/ _check_code_quality
    \/ _check_security
    \/ _check_cicd
    \/ _check_testing
    \/ _check_performance
    \/ _check_logging
    \/ _check_community
    \/ _check_legal
    \/ _check_website_compliance
    \/ check_compliance_return

Spec == Init /\ [][Next]_vars

\* Other sequences in which the ten category methods could be called: the
\* sequence of lines 79-88, its reverse, a rotation of it, and one with two
\* neighbours exchanged.
Orders ==
    {CategoryOrder,
     <<"legal", "community", "logging", "performance", "testing", "cicd",
       "security", "code_quality", "documentation", "general">>,
     <<"security", "cicd", "testing", "performance", "logging", "community",
       "legal", "general", "documentation", "code_quality">>,
     <<"documentation", "general", "code_quality", "security", "cicd",
       "testing", "performance", "logging", "community", "legal">>}

\* A fresh checker whose _check_github_repo calls the category methods in
\* one of these sequences.
InitAnyOrder ==
    /\ current_score = 0
    /\ results = <<>>
    /\ pc = "idle"
    /\ idx = 0
    /\ input = <<>>
    /\ returned = <<>>
    /\ calls = 0
    /\ results_id = 0
    /\ order \in Orders

\* The first check_compliance call of a checker.
first_check_compliance == calls = 0 /\ check_compliance

\* One pass: a single check_compliance call on a fresh checker.
NextOnePass ==
    \/ first_check_compliance
    \/ _check_github_repo
    \/ _check_general_compliance
    \/ _check_documentation
    \/ _check_code_quality
    \/ _check_security
    \/ _check_cicd
    \/ _check_testing
    \/ _check_performance
    \/ _check_logging
    \/ _check_community
    \/ _check_legal
    \/ _check_website_compliance
    \/ check_compliance_return

SpecAnyOrder == InitAnyOrder /\ [][NextOnePass]_vars

-----------------------------------------------------------------------------
(* Vocabulary of the properties.                                           *)

\* The reports the checker has returned and still holds: the last one.
Returned == {returned[i] : i \in 1..Len(returned)}

\* The report under construction, while a call is running.
Running == pc # "idle"

RECURSIVE SumScores(_)
SumScores(cats) ==
    IF cats = <<>> THEN 0 ELSE Head(cats).score + SumScores(Tail(cats))

RECURSIVE SumPassed(_)
SumPassed(checks) ==
    IF checks = <<>> THEN 0
    ELSE (IF Head(checks).passed THEN Head(checks).max_points ELSE 0)
             + SumPassed(Tail(checks))

RECURSIVE SumMax(_)
SumMax(checks) ==
    IF checks = <<>> THEN 0 ELSE Head(checks).max_points + SumMax(Tail(checks))

\* The target is handled as a repository and resolution succeeds.
Resolved(inp) ==
    /\ IsGithub(inp.url)
    /\ Len(PathParts(inp.url)) >= 2
    /\ inp.repo.get_repo.ok

\* The target is handled as a repository and resolution fails.
ResolutionFails(inp) ==
    /\ IsGithub(inp.url)
    /\ Len(PathParts(inp.url)) >= 2
    /\ ~inp.repo.get_repo.ok

StepsOf(inp, i) == Steps(CategoryOrder[i], inp.repo, PathParts(inp.url)[1])

\* The places <<category, rule>> of the catalog where a step raises.
Raises(inp) ==
    {<<i, j>> \in (1..Len(CategoryOrder)) \X (1..15) :
        j <= Len(StepsOf(inp, i)) /\ StepsOf(inp, i)[j].raise}

FirstRaise(inp) ==
    CHOOSE p \in Raises(inp) :
        \A q \in Raises(inp) : p[1] < q[1] \/ (p[1] = q[1] /\ p[2] <= q[2])

\* The score of the report the previous call returned, read before the
\* running call returns: what the checker had counted when that call began.
CarriedIn == IF returned = <<>> THEN 0 ELSE returned[1].report.score

-----------------------------------------------------------------------------
(* The claims.                                                             *)

\* C1: every returned report has 0 <= score <= max_score, and max_score is
\* the constant 100, after any sequence of calls on one checker.
C1_ScoreWithinMax ==
    \A r \in Returned :
        /\ 0 <= r.report.score
        /\ r.report.score <= r.report.max_score
        /\ r.report.max_score = 100

\* C2: in every returned report, the second and later ones of a checker
\* included, score is the sum of the scores of the report's categories.
C2_ScoreIsSumOfCategories ==
    \A r \in Returned : r.report.score = SumScores(r.report.categories)

\* C3: a call that repeats the previous call's target against the same
\* adapter answers returns a report equal to the previous one in every field.
C3_Idempotent ==
    [][(check_compliance_return /\ returned # <<>>
            /\ returned[1].input = input)
        => returned'[1].report = returned[1].report]_vars

\* C4: at every point during and after an evaluation, every category's score
\* is the sum of max_points over its passed checks, its max_score the sum of
\* max_points over all its checks, and so its score is at most its max_score.
CategoryBalanced(cat) ==
    /\ cat.score = SumPassed(cat.checks)
    /\ cat.max_score = SumMax(cat.checks)
    /\ cat.score <= cat.max_score

C4_CategorySums ==
    /\ Running =>
          \A i \in 1..Len(results.categories) :
              CategoryBalanced(results.categories[i])
    /\ \A r \in Returned :
          \A i \in 1..Len(r.report.categories) :
              CategoryBalanced(r.report.categories[i])

\* C4 witness: in the middle of a category, that category holds a passed and
\* a failed check.
C4_Witness ==
    /\ pc = "general"
    /\ idx > 1
    /\ \E i \in 1..Len(results.categories) :
          /\ \E k \in 1..Len(results.categories[i].checks) :
                results.categories[i].checks[k].passed
          /\ \E k \in 1..Len(results.categories[i].checks) :
                ~results.categories[i].checks[k].passed

\* C5: every recorded check has: passed=false implies points = 0 and a
\* non-empty how_to_fix; passed=true implies points = max_points and an empty
\* how_to_fix.
CheckWellFormed(ch) ==
    /\ ~ch.passed => (ch.points = 0 /\ ch.how_to_fix # "")
    /\ ch.passed => (ch.points = ch.max_points /\ ch.how_to_fix = "")

C5_RemediationIffFailed ==
    \A r \in Returned :
        \A i \in 1..Len(r.report.categories) :
            \A k \in 1..Len(r.report.categories[i].checks) :
                CheckWellFormed(r.report.categories[i].checks[k])

\* C6: when resolution fails, the returned report has no category, score 0,
\* percentage 0 and the error set.
C6_ResolutionFailureReport ==
    \A r \in Returned :
        ResolutionFails(r.input) =>
            /\ r.report.categories = <<>>
            /\ r.report.score = 0
            /\ r.report.percentage = 0
            /\ r.report.error # <<>>

\* C7: after resolution, a failing adapter call of a rule is recovered in the
\* rule: the rule is recorded passed=false and every rule of every category
\* is recorded, with no error on the report.
C7_AdapterFailureRecoveredLocally ==
    \A r \in Returned :
        (Resolved(r.input) /\ r.input.repo.pushed_at # "aware") =>
            /\ r.report.error = <<>>
            /\ Len(r.report.categories) = Len(CategoryOrder)
            /\ \A i \in 1..Len(r.report.categories) :
                  /\ Len(r.report.categories[i].checks) = Len(StepsOf(r.input, i))
                  /\ \A j \in 1..Len(r.report.categories[i].checks) :
                        StepsOf(r.input, i)[j].raise
                            => ~r.report.categories[i].checks[j].passed

\* C8: when an exception other than a GithubException leaves a rule after
\* checks were recorded, the returned report's error names the exception's
\* type and message, the checks recorded before it are all present and their
\* points are in the report score, and no later check is recorded.
UnexpectedFailure(inp) ==
    /\ Resolved(inp)
    /\ Raises(inp) # {}
    /\ ~StepsOf(inp, FirstRaise(inp)[1])[FirstRaise(inp)[2]].exc.github
    /\ FirstRaise(inp) # <<1, 1>>

\* The checks of category i are the first n steps of its method.
RecordedPrefix(cat, inp, i, n) ==
    /\ cat.name = CategoryName(CategoryOrder[i])
    /\ Len(cat.checks) = n
    /\ \A k \in 1..n :
          /\ cat.checks[k].name = StepsOf(inp, i)[k].name
          /\ cat.checks[k].passed = StepsOf(inp, i)[k].passed
          /\ cat.checks[k].points =
                 IF StepsOf(inp, i)[k].passed THEN StepsOf(inp, i)[k].points ELSE 0

PartialReport(report, inp, carried) ==
    LET at   == FirstRaise(inp)
        exc  == StepsOf(inp, at[1])[at[2]].exc
        last == IF at[2] > 1 THEN at[1] ELSE at[1] - 1
    IN  /\ report.error = <<"Unexpected error: ", exc.type, ": ", exc.msg>>
        /\ Len(report.categories) = last
        /\ \A i \in 1..last :
              RecordedPrefix(report.categories[i], inp, i,
                             IF i = at[1] THEN at[2] - 1
                             ELSE Len(StepsOf(inp, i)))
        /\ report.score = carried + SumScores(report.categories)

ScenarioA(inp) ==
    /\ Resolved(inp)
    /\ inp.repo = Favourable
    /\ Lower(PathParts(inp.url)[1]) = "owasp"

C9_ScenarioAFullScore ==
    \A r \in Returned :
        ScenarioA(r.input) =>
            /\ r.report.score = r.report.max_score
            /\ r.report.percentage = 10000
            /\ \A i \in 1..Len(r.report.categories) :
                  \A k \in 1..Len(r.report.categories[i].checks) :
                      r.report.categories[i].checks[k].how_to_fix = ""

\* C10: with no optional file or directory present and every keyword probe
\* missing, every rule that depends on files or content is recorded
\* passed=false with a non-empty how_to_fix, and every rule whose outcome is
\* a constant is recorded passed=true.
ScenarioB(inp) == Resolved(inp) /\ inp.repo = Absent

\* Absent with every probed file, directory and keyword present.
FilesPresent ==
    [Absent EXCEPT !.contents = ProbedPaths,
                   !.get_readme = Ok(ReadmeKeywords),
                   !.root = Favourable.root]

\* Rule j of category i changes its outcome with the files and the content.
FileOrContentRule(i, j) ==
    Steps(CategoryOrder[i], FilesPresent, "acme")[j].passed
        # Steps(CategoryOrder[i], Absent, "acme")[j].passed

\* Rule j of category i has the same outcome whatever the adapters answer.
ConstantRule(i, j) ==
    Steps(CategoryOrder[i], Favourable, "OWASP")[j].passed
        = Steps(CategoryOrder[i], Absent, "acme")[j].passed

C10_ScenarioBOutcomes ==
    \A r \in Returned :
        ScenarioB(r.input) =>
            \A i \in 1..Len(r.report.categories) :
                \A j \in 1..Len(r.report.categories[i].checks) :
                    LET ch == r.report.categories[i].checks[j]
                    IN  /\ FileOrContentRule(i, j)
                            => (~ch.passed /\ ch.how_to_fix # "")
                        /\ ConstantRule(i, j) => ch.passed

\* The target is handled as a generic website: its page is fetched.
WebsiteTarget(inp) == ~UrlparseRaises(inp.url) /\ ~IsGithub(inp.url)

SecurityKeywords == {"security", "vulnerability", "privacy"}

NumPassed(checks) == Cardinality({i \in 1..Len(checks) : checks[i].passed})

\* C11: for a website target whose page is fetched, the returned report has
\* exactly one category, Website Compliance, with exactly two checks of
\* weight 5 (the page mentions OWASP; the page holds a security keyword), the
\* note, and no error; the report of the first call of a checker has score 5
\* times the number of passing checks.
C11_WebsiteReport ==
    \A r \in Returned :
        WebsiteTarget(r.input) /\ r.input.page.ok =>
            LET rep == r.report
                cat == rep.categories[1]
            IN  /\ Len(rep.categories) = 1
                /\ cat.name = "Website Compliance"
                /\ Len(cat.checks) = 2
                /\ cat.checks[1].name = "Mentions OWASP"
                /\ cat.checks[1].passed = ("owasp" \in r.input.page.val)
                /\ cat.checks[2].name = "Security-focused content"
                /\ cat.checks[2].passed =
                       (r.input.page.val \cap SecurityKeywords # {})
                /\ \A i \in 1..2 : cat.checks[i].max_points = 5
                /\ rep.note # ""
                /\ rep.error = <<>>
                /\ calls = 1 => rep.score = 5 * NumPassed(cat.checks)

\* The first call returned the report of a fetched page that names OWASP and
\* holds no security keyword: one pass, one fail, score 5.
C11_Witness ==
    \E r \in Returned :
        /\ calls = 1
        /\ WebsiteTarget(r.input)
        /\ r.input.page.ok
        /\ r.input.page.val = {"owasp"}
        /\ r.report.categories[1].checks[1].passed
        /\ ~r.report.categories[1].checks[2].passed
        /\ r.report.score = 5

\* C12: when the fetch of a website target's page fails, the returned report
\* has the error set, no category, and no note.
C12_WebsiteFetchFailure ==
    \A r \in Returned :
        WebsiteTarget(r.input) /\ ~r.input.page.ok =>
            /\ r.report.error # <<>>
            /\ r.report.error[1] = "Failed to fetch website: "
            /\ r.report.categories = <<>>
            /\ r.report.note = ""

\* A website report was returned after the fetch failed.
C12_Witness ==
    \E r \in Returned :
        /\ WebsiteTarget(r.input)
        /\ ~r.input.page.ok
        /\ r.report.error =
               <<"Failed to fetch website: ", r.input.page.exc.msg>>

\* C13: check_compliance never lets an exception reach its caller: whatever
\* the target and whatever fails, the call ends by returning a report.
C13_NeverPropagates == pc # "raised"

RateLimitHint ==
    "API rate limit may be exceeded. Consider using a GitHub token with --token option."

UrlAndNetworkHint ==
    "Please check the repository URL and your network connection."

Parts(msg) == {msg[i] : i \in 1..Len(msg)}

\* C14: the error message of a resolution failure carries exactly one
\* remediation hint: the rate-limit hint if and only if the failure's status
\* is 403, and the hint to check the URL and the network otherwise.
C14_ResolutionHint ==
    \A r \in Returned :
        ResolutionFails(r.input) =>
            LET exc == r.input.repo.get_repo.exc
                msg == r.report.error
            IN  /\ (RateLimitHint \in Parts(msg)) <=> (exc.status = 403)
                /\ (UrlAndNetworkHint \in Parts(msg)) <=> (exc.status # 403)

\* The host of a netloc: the netloc without its port, lower-cased.
Hostname(netloc) ==
    CASE netloc = "github.com:443" -> "github.com"
      [] OTHER                     -> Lower(netloc)

CategoryMethods == {CategoryOrder[i] : i \in 1..Len(CategoryOrder)}

\* C15: a target is handled as a repository if and only if the host of its
\* URL, compared case-insensitively, is exactly github.com or www.github.com:
\* a target whose page is about to be fetched has another host, and a target
\* being resolved or evaluated has one of these two.
C15_RepositoryIffHost ==
    /\ pc = "website" =>
           Hostname(input.url.netloc) \notin {"github.com", "www.github.com"}
    /\ pc \in {"check_github_repo"} \cup CategoryMethods =>
           Hostname(input.url.netloc) \in {"github.com", "www.github.com"}

\* C16: in every returned report, percentage is score / max_score * 100
\* rounded to two decimals with max_score the constant 100, so the
\* percentage equals the score, also in website reports and in partial
\* reports that carry an error (percentage is in hundredths of a percent).
C16_PercentageOfFixedMax ==
    \A r \in Returned :
        /\ r.report.max_score = 100
        /\ r.report.percentage = Round2(r.report.score, 100)
        /\ r.report.percentage = 100 * r.report.score

\* A partial report with an error was returned: its categories' max_scores
\* sum to less than 100, its score is positive, and its percentage is its
\* score.
C16_Witness ==
    \E r \in Returned :
        /\ r.report.error # <<>>
        /\ r.report.categories # <<>>
        /\ SumCategoryMax(r.report.categories) < 100
        /\ r.report.score > 0
        /\ r.report.score # SumCategoryMax(r.report.categories)
        /\ r.report.percentage = 100 * r.report.score

\* The target is handled as a repository.
RepositoryTarget(inp) == ~UrlparseRaises(inp.url) /\ IsGithub(inp.url)

DeclaredCategories ==
    <<"General Compliance & Governance", "Documentation & Usability",
      "Code Quality & Best Practices", "Security & OWASP Compliance",
      "CI/CD & DevSecOps", "Testing & Validation",
      "Performance & Scalability", "Logging & Monitoring",
      "Community & Support", "Legal & Compliance">>

\* The rules a category declares, in the order of its method's statements.
DeclaredChecks(category) ==
    LET c == CHOOSE m \in CategoryMethods : CategoryName(m) = category
    IN  Steps(c, Favourable, "OWASP")

\* C17: in every returned report of a repository target the categories are
\* a prefix of the declared order, the checks of each category a prefix of
\* its declared checks, and only the last category present can be incomplete.
C17_DeclaredOrder ==
    \A r \in Returned :
        RepositoryTarget(r.input) =>
            LET cats == r.report.categories
                n    == Len(cats)
            IN  /\ n <= Len(DeclaredCategories)
                /\ \A i \in 1..n :
                      LET declared == DeclaredChecks(DeclaredCategories[i])
                          checks   == cats[i].checks
                      IN  /\ cats[i].name = DeclaredCategories[i]
                          /\ Len(checks) <= Len(declared)
                          /\ \A k \in 1..Len(checks) :
                                checks[k].name = declared[k].name
                          /\ i < n => Len(checks) = Len(declared)

\* A run stopped inside its fourth or a later category: the report holds the
\* categories before it in full and the last one cut short.
C17_Witness ==
    \E r \in Returned :
        LET cats == r.report.categories
            n    == Len(cats)
        IN  /\ RepositoryTarget(r.input)
            /\ r.report.error # <<>>
            /\ n >= 3
            /\ cats[n].name = DeclaredCategories[n]
            /\ Len(cats[n].checks) >= 1
            /\ Len(cats[n].checks) < Len(DeclaredChecks(DeclaredCategories[n]))

RECURSIVE NumChecks(_)
NumChecks(cats) ==
    IF cats = <<>> THEN 0 ELSE Len(Head(cats).checks) + NumChecks(Tail(cats))

\* C18: a repository evaluation that completes without error records exactly
\* 10 categories whose max_scores are 10, 10, 10, 15, 10, 10, 10, 10, 10 and
\* 5 in declared order, and 100 checks in total, each <<category, name>>
\* pair once, so that the category max_scores sum to the report's 100.
C18_CompleteCatalog ==
    \A r \in Returned :
        Resolved(r.input) /\ r.report.error = <<>> =>
            LET cats == r.report.categories
            IN  /\ Len(cats) = 10
                /\ [i \in 1..10 |-> cats[i].max_score] =
                       <<10, 10, 10, 15, 10, 10, 10, 10, 10, 5>>
                /\ \A i \in 1..10 : SumMax(cats[i].checks) = cats[i].max_score
                /\ NumChecks(cats) = 100
                /\ Cardinality(
                       {<<i, k>> \in (1..10) \X (1..15) :
                           k <= Len(cats[i].checks)}) = 100
                /\ Cardinality(
                       {<<cats[p[1]].name, cats[p[1]].checks[p[2]].name>> :
                           p \in {<<i, k>> \in (1..10) \X (1..15) :
                                     k <= Len(cats[i].checks)}}) = 100
                /\ SumCategoryMax(cats) = r.report.max_score

\* An evaluation of a repository with nothing in it completed without error:
\* the security category has max_score 15 and a lower score.
C18_Witness ==
    \E r \in Returned :
        /\ Resolved(r.input)
        /\ r.input.repo = Absent
        /\ r.report.error = <<>>
        /\ Len(r.report.categories) = 10
        /\ r.report.categories[4].max_score = 15
        /\ r.report.categories[4].score < 15

\* C19: a returned report whose error is the resolution-failure message
\* ("Failed to fetch repository. ...") has no category, and resolution is
\* what failed for its target.
C19_ResolutionMessageOnlyOnResolution ==
    \A r \in Returned :
        (r.report.error # <<>>
            /\ r.report.error[1] = "Failed to fetch repository. ") =>
            /\ r.report.categories = <<>>
            /\ ResolutionFails(r.input)

NotEmpty(segment) == segment # ""

\* The non-empty segments of a URL path, in order.
NonEmptySegments(url) == SelectSeq(Split(Strip(url.path)), NotEmpty)

\* C20: for a target on the hosting domain the owner and repository name
\* passed to resolution are the first two non-empty segments of the path;
\* and a target that is not handled as a repository (another host, or fewer
\* than two non-empty segments) is handled as a website: its report carries
\* the website note or the fetch error.
C20_FirstTwoNonEmptySegments ==
    /\ pc = "check_github_repo" =>
           /\ Len(NonEmptySegments(input.url)) >= 2
           /\ ResolutionArgs(input.url) =
                  <<NonEmptySegments(input.url)[1],
                    NonEmptySegments(input.url)[2]>>
    /\ \A r \in Returned :
           ~(IsGithub(r.input.url) /\ Len(NonEmptySegments(r.input.url)) >= 2)
               => r.report.note # "" \/ r.report.error # <<>>

\* The target resolves and no step of any category method raises.
NoFailure(inp) == Resolved(inp) /\ Raises(inp) = {}

RECURSIVE AddChecks(_, _, _)
AddChecks(acc, category, steps) ==
    IF steps = <<>> THEN acc
    ELSE AddChecks(_add_check(acc.results, acc.current_score, category,
                              Head(steps).name, Head(steps).passed,
                              Head(steps).points, Head(steps).details,
                              Head(steps).how_to_fix),
                   category, Tail(steps))

\* The record of category method c evaluated on its own, on an empty report.
CategoryAlone(c, inp) ==
    AddChecks([results |-> FreshResults(inp.url), current_score |-> 0],
              CategoryName(c),
              Steps(c, inp.repo, PathParts(inp.url)[1])).results.categories[1]

RECURSIVE SumAlone(_, _)
SumAlone(methods, inp) ==
    IF methods = <<>> THEN 0
    ELSE CategoryAlone(Head(methods), inp).score + SumAlone(Tail(methods), inp)

SameInAnyOrder(report, inp, carried) ==
    /\ report.error = <<>>
    /\ Len(report.categories) = Len(order)
    /\ \A i \in 1..Len(order) :
          report.categories[i] = CategoryAlone(order[i], inp)
    /\ report.score = carried + SumAlone(CategoryOrder, inp)

\* C21: the outcome of a rule depends only on the adapter's facts: with no
\* failure, whatever the sequence in which the ten category methods run, each
\* category's record in the returned report is the record of that category
\* evaluated on its own, and the score is the sum over the categories.
C21_OrderIndependent ==
    [][(check_compliance_return /\ NoFailure(input))
        => SameInAnyOrder(returned'[1].report, input, CarriedIn)]_vars

\* A pass over a repository with nothing in it ran the category methods in
\* another sequence than that of lines 79-88 and returned all ten categories.
C21_Witness ==
    \E r \in Returned :
        /\ order # CategoryOrder
        /\ NoFailure(r.input)
        /\ r.input.repo = Absent
        /\ Len(r.report.categories) = 10
        /\ r.report.categories[1].name = CategoryName(order[1])
        /\ r.report.categories[1].name # "General Compliance & Governance"
        /\ r.report.score > 0

\* C22: every returned report has at least one category or an error: a
\* report with no category and no error is never returned, whatever the
\* target.
C22_NeverEmptyReport ==
    \A r \in Returned :
        r.report.categories # <<>> \/ r.report.error # <<>>

\* C23: a report the checker returned is left as it was returned by every
\* later call: the later call writes to a dict of another identity, and the
\* held report still reads as it did when it was returned.
C23_ReturnedReportUnchanged ==
    \A r \in Returned :
        /\ r.report = r.as_returned
        /\ pc # "idle" => r.id # results_id

\* A later call has recorded checks and an error in its own report while the
\* report of the call before it is held.
C23_Witness ==
    /\ pc = "return"
    /\ returned # <<>>
    /\ returned[1].id # results_id
    /\ returned[1].report = returned[1].as_returned
    /\ results.categories # <<>>
    /\ results.error # <<>>
    /\ results.categories # returned[1].report.categories

====
